---- MODULE Spec2Model ----
(***************************************************************************)
(* The TEJ framing engine of tej_protoc/protocol.py: BytesBuilder (the     *)
(* encoder), send, SocReader.read_bytes (the exact-size read) and          *)
(* FrameReader (the decoder), over one byte stream.                        *)
(*                                                                         *)
(* A byte is an integer 0..255, a byte string a sequence of bytes, a text  *)
(* a sequence of code points.  Python's None is the empty sequence <<>>    *)
(* and a present value x is <<x>>.                                         *)
(***************************************************************************)
EXTENDS Integers, Sequences, FiniteSets, TLC

VARIABLES
    builder,          \* the BytesBuilder object: None, or <<its fields>>
    dataframe,        \* what the last BytesBuilder.bytes() returned: None or <<bytes>>
    raised,           \* the exception the last builder-side call raised, "" if none
    bytes_calls,      \* bytes() calls made since the builder last changed
    calls,            \* history: the add_file and set_message calls made on the
                      \* builder since it was constructed, in order
    stream,           \* the bytes written to the socket and not yet read
    closed,           \* the peer has closed: no more bytes will arrive
    sock_timeout,     \* the socket's timeout (client.settimeout), 0 for None
    timeout,          \* FrameReader.timeout, 0 for None
    max_buffer_size,  \* SocReader.max_buffer_size
    pc,               \* where FrameReader.read stands, "idle" outside a call
    rb,               \* the running read_bytes call: size, bytes_in, data
    fr,               \* the locals of the running read
    callback,         \* the ResponseCallback's custom_status and protocol_version
    received,         \* the arguments callback.received got in this read call
    result,           \* how the last read call ended, "" when none has ended
    sent,             \* history: the frames written whole and not yet read
    expect,           \* history: the frame at the head of the stream when this
                      \* read call began, None if the stream did not begin with one
    consumed,         \* history: bytes this read call took from the stream
    before,           \* history: the callback's attributes when this read call
                      \* began
    fault             \* history: how an underlying recv of this read call failed

vars == <<builder, dataframe, raised, bytes_calls, calls, stream, closed, sock_timeout,
          timeout, max_buffer_size, pc, rb, fr, callback, received, result, sent,
          expect, consumed, before, fault>>

builder_vars == <<builder, dataframe, raised, bytes_calls, calls>>
wire_vars == <<stream, closed, sent>>
reader_vars == <<sock_timeout, pc, rb, fr, callback, received, result, expect,
                 consumed, before, fault>>
config_vars == <<timeout, max_buffer_size>>

(***************************************************************************)
(* Bounds of the model.                                                    *)
(***************************************************************************)
MaxFiles == 1         \* files of one frame written to the stream
MaxAdds == 2          \* add_file calls on one builder driven call by call
MaxSets == 2          \* set_message calls on one builder driven call by call
MaxStreamLen == 40    \* bytes the stream holds unread
MaxChunk == 2         \* the small max_buffer_size a SocReader is built with
MaxCalls == 2         \* bytes() calls on an unchanged builder
MaxSends == 2         \* protocol.send calls that return

(***************************************************************************)
(* Inputs.                                                                 *)
(***************************************************************************)
None == <<>>
Some(x) == <<x>>

StatusCodes == {-1, 0, 20, 128}
Versions == {-1, 255, 300}
\* "a", "e-acute" (two bytes in UTF-8), "e-acute NUL"
FileNames == {<<97>>, <<233>>, <<233, 0>>}
FileDatas == {<<>>, <<49, 48>>}
Messages == {<<>>, <<72, 105>>}
Timeouts == {0, 5}
BufferSizes == {0, MaxChunk}
TransportErrors == {"socket.timeout", "ConnectionResetError"}
\* What a peer that does not speak the protocol writes.
RawData == {<<0>>, <<72, 105>>}

Min(a, b) == IF a <= b THEN a ELSE b

(***************************************************************************)
(* Python's int.to_bytes(width, 'big') and int.from_bytes(.., 'big').      *)
(* A decoded length of 2^24 or more is kept as TooLarge: no stream of the  *)
(* model holds that many bytes, so a read of that size never completes.    *)
(***************************************************************************)
TooLarge == 16777216

RECURSIVE to_bytes(_, _)
to_bytes(n, width) ==
    IF width = 0 THEN <<>> ELSE Append(to_bytes(n \div 256, width - 1), n % 256)

\* The bytes from the i-th on, joined to the value hi of the bytes before them.
RECURSIVE from_bytes_from(_, _, _)
from_bytes_from(bs, i, hi) ==
    IF i > Len(bs) THEN hi
    ELSE from_bytes_from(bs, i + 1,
             IF hi >= TooLarge \div 256 THEN TooLarge ELSE (hi * 256) + bs[i])

from_bytes(bs) == from_bytes_from(bs, 1, 0)

(***************************************************************************)
(* str.encode('utf-8') and bytes.decode() (UTF-8, strict).                 *)
(***************************************************************************)
Utf8Char(c) ==
    IF c < 128 THEN <<c>>
    ELSE IF c < 2048 THEN <<192 + (c \div 64), 128 + (c % 64)>>
    ELSE IF c < 65536 THEN
        <<224 + (c \div 4096), 128 + ((c \div 64) % 64), 128 + (c % 64)>>
    ELSE <<240 + (c \div 262144), 128 + ((c \div 4096) % 64),
           128 + ((c \div 64) % 64), 128 + (c % 64)>>

RECURSIVE Utf8Encode(_)
Utf8Encode(text) ==
    IF text = <<>> THEN <<>> ELSE Utf8Char(Head(text)) \o Utf8Encode(Tail(text))

IsCont(bs, i) == i <= Len(bs) /\ bs[i] >= 128 /\ bs[i] <= 191

\* The length of the well-formed UTF-8 sequence that starts bs, 0 if none does.
Utf8SeqLen(bs) ==
    LET b == bs[1] IN
    IF b < 128 THEN 1
    ELSE IF b >= 194 /\ b <= 223 /\ IsCont(bs, 2) THEN 2
    ELSE IF b >= 224 /\ b <= 239 /\ IsCont(bs, 2) /\ IsCont(bs, 3)
            /\ (b = 224 => bs[2] >= 160) /\ (b = 237 => bs[2] <= 159) THEN 3
    ELSE IF b >= 240 /\ b <= 244 /\ IsCont(bs, 2) /\ IsCont(bs, 3) /\ IsCont(bs, 4)
            /\ (b = 240 => bs[2] >= 144) /\ (b = 244 => bs[2] <= 143) THEN 4
    ELSE 0

Utf8Point(bs, n) ==
    IF n = 1 THEN bs[1]
    ELSE IF n = 2 THEN ((bs[1] - 192) * 64) + (bs[2] - 128)
    ELSE IF n = 3 THEN
        ((bs[1] - 224) * 4096) + ((bs[2] - 128) * 64) + (bs[3] - 128)
    ELSE ((bs[1] - 240) * 262144) + ((bs[2] - 128) * 4096) + ((bs[3] - 128) * 64)
         + (bs[4] - 128)

RECURSIVE Utf8Valid(_)
Utf8Valid(bs) ==
    IF bs = <<>> THEN TRUE
    ELSE LET n == Utf8SeqLen(bs)
         IN  n > 0 /\ Utf8Valid(SubSeq(bs, n + 1, Len(bs)))

\* bytes.decode() of a well-formed byte string.
RECURSIVE Utf8Decode(_)
Utf8Decode(bs) ==
    IF bs = <<>> THEN <<>>
    ELSE LET n == Utf8SeqLen(bs)
         IN  <<Utf8Point(bs, n)>> \o Utf8Decode(SubSeq(bs, n + 1, Len(bs)))

(***************************************************************************)
(* BytesBuilder.  A builder is the record of its four attributes; each     *)
(* method is the builder it leaves behind.                                 *)
(***************************************************************************)
File(name, data) == [name |-> name, data |-> data]

\* Python's  x | 0b10000000  on an unbounded two's-complement integer.
BitOr128(x) == IF (x \div 128) % 2 = 1 THEN x ELSE x + 128

\* bytearray.append(x) takes 0..255 only and raises ValueError otherwise.
IsByte(x) == x >= 0 /\ x <= 255

\* `in_range = (status_code >= 0 or status_code <= 0b01111111)`
StatusInRange(status_code) == status_code >= 0 \/ status_code <= 127

\* `version >= 0 or version <= 256`
VersionInRange(version) == version >= 0 \/ version <= 256

BytesBuilder(status_code) ==
    [status_code |-> status_code, protocol_version |-> 1,
     files |-> <<>>, message |-> None]

set_protocol_version(self, version) == [self EXCEPT !.protocol_version = version]

\* The new file put in front of the list.
add_file_first(self, filename, data) ==
    [self EXCEPT !.files = <<File(filename, data)>> \o self.files]

add_file(self, filename, data) ==
    [self EXCEPT !.files = Append(self.files, File(filename, data))]

\* The new message joined to the one already set.
set_message_joined(self, message) ==
    [self EXCEPT !.message =
        IF self.message = None THEN Some(message) ELSE Some(self.message[1] \o message)]

set_message(self, message) == [self EXCEPT !.message = Some(message)]

\* `if self._message`: a message that is set and not empty.
HasMessage(self) == self.message # None /\ Len(self.message[1]) > 0

add_status(self, df) == Append(df, BitOr128(self.status_code))

add_protocol_version(self, df) == Append(df, self.protocol_version)

\* `filename_length = len(file.name)`: the number of characters of the name.
filename_length(file) == Len(file.name)

\* One turn of the loop of __add_files__.
add_one_file(file) ==
    to_bytes(filename_length(file), 2) \o Utf8Encode(file.name)
        \o to_bytes(Len(file.data), 8) \o file.data

RECURSIVE add_file_loop(_)
add_file_loop(files) ==
    IF files = <<>> THEN <<>>
    ELSE add_one_file(Head(files)) \o add_file_loop(Tail(files))

add_files(self, df) ==
    df \o to_bytes(Len(self.files), 8) \o add_file_loop(self.files)

\* The length field written only with a message.
add_message_only_if_set(self, df) ==
    IF HasMessage(self) THEN df \o to_bytes(Len(self.message[1]), 8) \o self.message[1]
    ELSE df

add_message(self, df) ==
    LET message_length == IF HasMessage(self) THEN Len(self.message[1]) ELSE 0
    IN  df \o to_bytes(message_length, 8)
           \o (IF HasMessage(self) THEN self.message[1] ELSE <<>>)

\* bytes() raises ValueError from bytearray.append when a byte is out of range.
bytes_raises(self) ==
    ~IsByte(BitOr128(self.status_code)) \/ ~IsByte(self.protocol_version)

\* A dataframe kept between calls instead of a fresh one.
StaleDataframe == IF dataframe = None THEN <<>> ELSE dataframe[1]

\* `dataframe = bytearray()`
NewDataframe == <<>>

bytes(self) ==
    add_message(self, add_files(self, add_protocol_version(self,
        add_status(self, NewDataframe))))

(***************************************************************************)
(* The builder's calls as steps of a caller.  dataframe keeps what bytes() *)
(* returned for as long as the builder is not changed; calls records the   *)
(* arguments of the add_file and set_message calls.                        *)
(***************************************************************************)
NoCalls == [add_file |-> <<>>, set_message |-> <<>>]

Construct(status_code) ==
    /\ IF StatusInRange(status_code)
       THEN /\ builder' = Some(BytesBuilder(status_code))
            /\ raised' = ""
            /\ dataframe' = None
            /\ bytes_calls' = 0
            /\ calls' = NoCalls
       ELSE /\ raised' = "InvalidStatusCode"
            /\ UNCHANGED <<builder, dataframe, bytes_calls, calls>>
    /\ UNCHANGED <<wire_vars, reader_vars, config_vars>>

SetProtocolVersion(version) ==
    /\ builder # None
    /\ IF VersionInRange(version)
       THEN /\ builder' = Some(set_protocol_version(builder[1], version))
            /\ raised' = ""
            /\ dataframe' = None
            /\ bytes_calls' = 0
       ELSE /\ raised' = "InvalidProtocolVersion"
            /\ UNCHANGED <<builder, dataframe, bytes_calls>>
    /\ UNCHANGED <<calls, wire_vars, reader_vars, config_vars>>

AddFile(filename, data) ==
    /\ builder # None
    /\ Len(calls.add_file) < MaxAdds
    /\ builder' = Some(add_file(builder[1], filename, data))
    /\ raised' = ""
    /\ dataframe' = None
    /\ bytes_calls' = 0
    /\ calls' = [calls EXCEPT !.add_file = Append(@, <<filename, data>>)]
    /\ UNCHANGED <<wire_vars, reader_vars, config_vars>>

SetMessage(message) ==
    /\ builder # None
    /\ Len(calls.set_message) < MaxSets
    /\ builder' = Some(set_message(builder[1], message))
    /\ raised' = ""
    /\ dataframe' = None
    /\ bytes_calls' = 0
    /\ calls' = [calls EXCEPT !.set_message = Append(@, message)]
    /\ UNCHANGED <<wire_vars, reader_vars, config_vars>>

Bytes ==
    /\ builder # None
    /\ bytes_calls < MaxCalls
    /\ bytes_calls' = bytes_calls + 1
    /\ IF bytes_raises(builder[1])
       THEN raised' = "ValueError" /\ dataframe' = None
       ELSE raised' = "" /\ dataframe' = Some(bytes(builder[1]))
    /\ UNCHANGED <<builder, calls, wire_vars, reader_vars, config_vars>>

(***************************************************************************)
(* SocReader and FrameReader.                                              *)
(***************************************************************************)
DefaultMaxBufferSize == 8192

\* SocReader.__init__: `if not max_buffer_size` takes the default.
SocReader(size) == IF size = 0 THEN DefaultMaxBufferSize ELSE size

\* A read_bytes(client, size) call at its start.
read_bytes(size) == [size |-> size, bytes_in |-> 0, data |-> <<>>]

NoCall == read_bytes(0)

NoLocals == [files_count |-> 0, files |-> <<>>, filename |-> <<>>, message |-> None]

\* `buffer_size = min(size, self.max_buffer_size)`
buffer_size(r, max) == Min(r.size, max)

\* The whole buffer asked for in every turn of the loop.
max_read_buffer_size(r, max) == buffer_size(r, max)

\* `max_read = min(remaining_size, buffer_size)`
max_read(r, max) == Min(r.size - r.bytes_in, buffer_size(r, max))

\* The positions of read at which a read_bytes call waits in client.recv.
Reading == {"status", "version", "count", "name_len", "name", "file_len",
            "file_data", "msg_len", "msg"}

\* read_status: the validity bit and the custom status of the first byte.
read_status(first_byte) == <<first_byte[1] \div 128, first_byte[1] % 128>>

read_protocol_version(byte) == byte[1]

count_number_of_files(eight) == from_bytes(eight)

\* The reader as one record, so that a step is a function of it.
Reader ==
    [pc |-> pc, rb |-> rb, fr |-> fr, callback |-> callback,
     sock_timeout |-> sock_timeout, result |-> result]

Goto(m, p, size) == [m EXCEPT !.pc = p, !.rb = read_bytes(size)]

\* An exception leaves read: the call is over and its locals are gone.
Raise(m, exception) ==
    [m EXCEPT !.pc = "idle", !.rb = NoCall, !.fr = NoLocals, !.result = exception]

\* The timeout set before the validity bit is looked at.
after_status_timeout_first(m, first_byte) ==
    LET st == read_status(first_byte)
        timed == IF timeout # 0 THEN [m EXCEPT !.sock_timeout = timeout] ELSE m
    IN  IF st[1] # 1 THEN Raise(timed, "ProtocolException")
        ELSE Goto([timed EXCEPT !.callback.custom_status = st[2]], "version", 1)

\* read, lines 122-133: the first byte has arrived.
after_status(m, first_byte) ==
    LET st == read_status(first_byte)
        timed == IF timeout # 0 THEN [m EXCEPT !.sock_timeout = timeout] ELSE m
    IN  IF st[1] # 1 THEN Raise(m, "ProtocolException")
        ELSE Goto([timed EXCEPT !.callback.custom_status = st[2]], "version", 1)

\* read, line 133, and read_files up to its loop.
after_version(m, byte) ==
    Goto([m EXCEPT !.callback.protocol_version = read_protocol_version(byte)],
         "count", 8)

\* The loop of read_files is over when files_count files are read; read_message
\* follows it.
next_file(m) ==
    IF Len(m.fr.files) < m.fr.files_count THEN Goto(m, "name_len", 2)
    ELSE Goto(m, "msg_len", 8)

after_count(m, eight) ==
    next_file([m EXCEPT !.fr.files_count = count_number_of_files(eight),
                        !.fr.files = <<>>])

\* read_file: a zero filename_length reads nothing and decodes to "".
after_name_len(m, two) ==
    IF from_bytes(two) = 0 THEN Goto([m EXCEPT !.fr.filename = <<>>], "file_len", 8)
    ELSE Goto(m, "name", from_bytes(two))

after_name(m, name) ==
    IF ~Utf8Valid(name) THEN Raise(m, "UnicodeDecodeError")
    ELSE Goto([m EXCEPT !.fr.filename = Utf8Decode(name)], "file_len", 8)

\* `files.append(File(filename, file_data))`
after_file(m, file_data) ==
    next_file([m EXCEPT !.fr.files = Append(@, File(m.fr.filename, file_data))])

\* A recv issued for the data whatever its length.
after_file_len_recv(m, eight) == Goto(m, "file_data", from_bytes(eight))

after_file_len(m, eight) ==
    IF from_bytes(eight) = 0 THEN after_file(m, <<>>)
    ELSE Goto(m, "file_data", from_bytes(eight))

\* read, lines 137-139: the message is read, the timeout is cleared next.
after_message(m, message) ==
    [m EXCEPT !.pc = "settimeout_none", !.rb = NoCall, !.fr.message = message]

\* A zero message_length read as the empty message b''.
after_msg_len_empty(m, eight) ==
    IF from_bytes(eight) = 0 THEN after_message(m, Some(<<>>))
    ELSE Goto(m, "msg", from_bytes(eight))

\* read_message: a zero message_length is None.
after_msg_len(m, eight) ==
    IF from_bytes(eight) = 0 THEN after_message(m, None)
    ELSE Goto(m, "msg", from_bytes(eight))

\* What read does with the bytes a read_bytes call returned, up to its next recv.
field_done(m, data) ==
    CASE m.pc = "status" -> after_status(m, data)
      [] m.pc = "version" -> after_version(m, data)
      [] m.pc = "count" -> after_count(m, data)
      [] m.pc = "name_len" -> after_name_len(m, data)
      [] m.pc = "name" -> after_name(m, data)
      [] m.pc = "file_len" -> after_file_len(m, data)
      [] m.pc = "file_data" -> after_file(m, data)
      [] m.pc = "msg_len" -> after_msg_len(m, data)
      [] m.pc = "msg" -> after_message(m, Some(data))

\* One turn of the loop of read_bytes with a chunk that is not empty; the loop
\* ends when bytes_in = size.
chunk_in(m, chunk) ==
    LET r == [m.rb EXCEPT !.data = @ \o chunk, !.bytes_in = @ + Len(chunk)]
    IN  IF r.bytes_in # r.size THEN [m EXCEPT !.rb = r] ELSE field_done(m, r.data)

SetReader(m) ==
    /\ pc' = m.pc
    /\ rb' = m.rb
    /\ fr' = m.fr
    /\ callback' = m.callback
    /\ sock_timeout' = m.sock_timeout
    /\ result' = m.result

(***************************************************************************)
(* The frames a caller builds with in-range values, as the scripts do in   *)
(* one chained expression.                                                 *)
(***************************************************************************)
Files == {File(n, d) : n \in FileNames, d \in FileDatas}

FileLists == UNION {[1..n -> Files] : n \in 0..MaxFiles}

RECURSIVE add_all(_, _)
add_all(self, files) ==
    IF files = <<>> THEN self
    ELSE add_all(add_file(self, Head(files).name, Head(files).data), Tail(files))

Chain(status_code, version, files, message) ==
    LET b0 == BytesBuilder(status_code)
        b1 == IF version = None THEN b0 ELSE set_protocol_version(b0, version[1])
        b2 == add_all(b1, files)
    IN  IF message = None THEN b2 ELSE set_message(b2, message[1])

ValidFrames ==
    {Chain(s, v, fs, m) :
        s \in StatusCodes \cap (0..127),
        v \in {None} \cup {Some(x) : x \in Versions \cap (0..255)},
        fs \in FileLists,
        m \in {None} \cup {Some(x) : x \in Messages}}

RECURSIVE WireOf(_)
WireOf(frames) ==
    IF frames = <<>> THEN <<>> ELSE bytes(Head(frames)) \o WireOf(Tail(frames))

(***************************************************************************)
(* The stream.  Write puts one serialized frame on it whole, as            *)
(* protocol.send(client, builder.bytes()) does when the socket takes all   *)
(* of it.  The frames are written before the reader takes its first byte.  *)
(***************************************************************************)
NothingRead == result = "" /\ consumed = 0

Write(frame) ==
    /\ ~closed
    /\ NothingRead
    /\ Len(stream) + Len(bytes(frame)) <= MaxStreamLen
    /\ stream' = stream \o bytes(frame)
    /\ sent' = Append(sent, frame)
    /\ UNCHANGED <<closed, builder_vars, reader_vars, config_vars>>

\* A peer that does not speak the protocol writes to an empty stream.
WriteRaw(data) ==
    /\ ~closed
    /\ NothingRead
    /\ stream = <<>>
    /\ stream' = data
    /\ sent' = <<>>
    /\ UNCHANGED <<closed, builder_vars, reader_vars, config_vars>>

\* The peer closes: the bytes not yet read never arrive.
Close ==
    /\ ~closed
    /\ closed' = TRUE
    /\ stream' = <<>>
    /\ sent' = <<>>
    /\ UNCHANGED <<builder_vars, reader_vars, config_vars>>

(***************************************************************************)
(* FrameReader.read, one step per client.recv.                             *)
(***************************************************************************)
\* read is called: read_status asks read_bytes for one byte.
ReadCall ==
    /\ pc = "idle"
    /\ pc' = "status"
    /\ rb' = read_bytes(1)
    /\ fr' = NoLocals
    /\ received' = None
    /\ consumed' = 0
    /\ before' = callback
    /\ fault' = ""
    /\ IF sent # <<>> /\ stream = WireOf(sent)
       THEN expect' = Some(Head(sent)) /\ sent' = Tail(sent)
       ELSE expect' = None /\ sent' = <<>>
    /\ UNCHANGED <<stream, closed, sock_timeout, callback, result, builder_vars,
                   config_vars>>

\* client.recv(max_read) returns a chunk: at least one byte, at most max_read.
Recv(n) ==
    /\ pc \in Reading
    /\ n >= 1
    /\ n <= Len(stream)
    /\ n <= max_read(rb, max_buffer_size)
    /\ SetReader(chunk_in(Reader, SubSeq(stream, 1, n)))
    /\ stream' = SubSeq(stream, n + 1, Len(stream))
    /\ consumed' = consumed + n
    /\ UNCHANGED <<closed, sent, received, expect, before, fault, builder_vars,
                   config_vars>>

\* An empty chunk ends the loop and the zero-filled buffer is returned.
empty_chunk_break(m) ==
    field_done(m, m.rb.data \o [i \in 1..(m.rb.size - m.rb.bytes_in) |-> 0])

\* An empty chunk adds nothing and the loop goes on.
empty_chunk_ignored(m) == m

\* `if not chunk: raise ConnectionClosed()`
empty_chunk(m) == Raise(m, "ConnectionClosed")

\* client.recv returns b'': the peer has closed and nothing is left to read.
RecvEmpty ==
    /\ pc \in Reading
    /\ rb.bytes_in # rb.size
    /\ closed
    /\ stream = <<>>
    /\ SetReader(empty_chunk(Reader))
    /\ fault' = "closed"
    /\ UNCHANGED <<wire_vars, received, expect, before, consumed, builder_vars,
                   config_vars>>

\* client.recv raises; read_bytes and read have no handler, the exception
\* leaves them as it is.
recv_raises(m, exception) == Raise(m, exception)

\* The socket's timeout expires while recv waits for bytes that do not come
\* (only with a timeout set), or the connection is reset.
RecvRaises(exception) ==
    /\ pc \in Reading
    /\ rb.bytes_in # rb.size
    /\ exception = "socket.timeout" => sock_timeout # 0 /\ stream = <<>> /\ ~closed
    /\ SetReader(recv_raises(Reader, exception))
    /\ fault' = exception
    /\ IF exception = "socket.timeout" THEN UNCHANGED wire_vars
       ELSE closed' = TRUE /\ stream' = <<>> /\ sent' = <<>>
    /\ UNCHANGED <<received, expect, before, consumed, builder_vars, config_vars>>

\* The timeout left as it is.
ClearTimeoutForgotten ==
    /\ pc = "settimeout_none"
    /\ pc' = "callback"
    /\ UNCHANGED <<sock_timeout, rb, fr, callback, received, result, expect, before,
                   consumed, fault, wire_vars, builder_vars, config_vars>>

\* read, lines 139-140: `if self.timeout: client.settimeout(None)`
ClearTimeout ==
    /\ pc = "settimeout_none"
    /\ pc' = "callback"
    /\ sock_timeout' = IF timeout # 0 THEN 0 ELSE sock_timeout
    /\ UNCHANGED <<rb, fr, callback, received, result, expect, before, consumed, fault,
                   wire_vars, builder_vars, config_vars>>

\* What callback.received is given, with the callback's attributes at that time.
Delivery(files, message, cb) ==
    [files |-> files, message |-> message,
     custom_status |-> cb.custom_status, protocol_version |-> cb.protocol_version]

\* read, line 143: callback.received(files, message); read returns.
Callback ==
    /\ pc = "callback"
    /\ received' = Some(Delivery(fr.files, fr.message, callback))
    /\ pc' = "idle"
    /\ fr' = NoLocals
    /\ result' = "ok"
    /\ UNCHANGED <<rb, callback, sock_timeout, expect, before, consumed, fault,
                   wire_vars, builder_vars, config_vars>>

(***************************************************************************)
(* Specifications.                                                         *)
(***************************************************************************)
InitBuilder ==
    /\ builder = None
    /\ dataframe = None
    /\ raised = ""
    /\ bytes_calls = 0
    /\ calls = NoCalls

InitWire ==
    /\ stream = <<>>
    /\ closed = FALSE
    /\ sent = <<>>

InitReader ==
    /\ sock_timeout = 0
    /\ pc = "idle"
    /\ rb = NoCall
    /\ fr = NoLocals
    /\ callback = [custom_status |-> 0, protocol_version |-> 0]
    /\ received = None
    /\ result = ""
    /\ expect = None
    /\ consumed = 0
    /\ before = callback
    /\ fault = ""

\* A reader built with or without a timeout, with the default or a small
\* max_buffer_size, on a stream nothing has been written to.
Init ==
    /\ InitBuilder
    /\ InitWire
    /\ InitReader
    /\ timeout \in Timeouts
    /\ max_buffer_size \in {SocReader(size) : size \in BufferSizes}

Next ==
    \/ \E frame \in ValidFrames : Write(frame)
    \/ \E data \in RawData : WriteRaw(data)
    \/ Close
    \/ ReadCall
    \/ \E n \in 1..MaxStreamLen : Recv(n)
    \/ RecvEmpty
    \/ \E exception \in TransportErrors : RecvRaises(exception)
    \/ ClearTimeout
    \/ Callback

Spec == Init /\ [][Next]_vars

\* The builder alone, driven call by call.
InitB ==
    /\ InitBuilder
    /\ InitWire
    /\ InitReader
    /\ timeout = 0
    /\ max_buffer_size = SocReader(0)

NextB ==
    \/ \E status_code \in StatusCodes : Construct(status_code)
    \/ \E version \in Versions : SetProtocolVersion(version)
    \/ \E filename \in FileNames, data \in FileDatas : AddFile(filename, data)
    \/ \E message \in Messages : SetMessage(message)
    \/ Bytes

SpecB == InitB /\ [][NextB]_vars

\* The reader on frames of one file whose name is empty or not and whose data
\* is empty, one byte shorter than the small buffer size, as long as it and one
\* byte longer.
ChunkNames == {<<>>, <<97>>}

ChunkDatas == {[i \in 1..n |-> i] : n \in {0, MaxChunk - 1, MaxChunk, MaxChunk + 1}}

ChunkFrames ==
    {add_file(BytesBuilder(0), name, data) : name \in ChunkNames, data \in ChunkDatas}

NextChunks ==
    \/ \E frame \in ChunkFrames : Write(frame)
    \/ Close
    \/ ReadCall
    \/ \E n \in 1..MaxStreamLen : Recv(n)
    \/ RecvEmpty
    \/ \E exception \in TransportErrors : RecvRaises(exception)
    \/ ClearTimeout
    \/ Callback

SpecChunks == Init /\ [][NextChunks]_vars

\* What the reader's thread does by itself: a recv that can return does return
\* (with bytes, with b'' after the close, or with socket.timeout when the
\* socket's timeout runs out), and read goes on from a read_bytes that returned.
ReaderStep ==
    \/ \E n \in 1..MaxStreamLen : Recv(n)
    \/ RecvEmpty
    \/ RecvRaises("socket.timeout")
    \/ ClearTimeout
    \/ Callback

SpecChunksFair == SpecChunks /\ WF_vars(ReaderStep)

(***************************************************************************)
(* protocol.send(client, builder.bytes()) on a socket that takes as many   *)
(* of the bytes as it has room for.  sent gets the frames of the calls     *)
(* that returned.                                                          *)
(***************************************************************************)
\* What send raises, "" when it returns, after client.send returned sent_bytes:
\* `if sent_bytes == 0: raise ConnectionClosed()`
send(sent_bytes) == IF sent_bytes = 0 THEN "ConnectionClosed" ELSE ""

\* client.send takes the first sent_bytes bytes of the frame and returns.
Send(frame, sent_bytes) ==
    /\ ~closed
    /\ Len(sent) < MaxSends
    /\ sent_bytes <= Len(bytes(frame))
    /\ Len(stream) + sent_bytes <= MaxStreamLen
    /\ stream' = stream \o SubSeq(bytes(frame), 1, sent_bytes)
    /\ raised' = send(sent_bytes)
    /\ sent' = IF send(sent_bytes) = "" THEN Append(sent, frame) ELSE sent
    /\ UNCHANGED <<closed, builder, dataframe, bytes_calls, calls, reader_vars,
                   config_vars>>

\* client.send raises on a connection the peer has closed:
\* `except Exception: raise ConnectionClosed()`
SendRaises ==
    /\ closed
    /\ raised' = "ConnectionClosed"
    /\ UNCHANGED <<builder, dataframe, bytes_calls, calls, wire_vars, reader_vars,
                   config_vars>>

NextSend ==
    \/ \E frame \in ChunkFrames, sent_bytes \in 0..MaxStreamLen : Send(frame, sent_bytes)
    \/ SendRaises
    \/ Close

SpecSend == InitB /\ [][NextSend]_vars

(***************************************************************************)
(* Properties.                                                             *)
(***************************************************************************)
\* What the callback is to be handed for a frame: its status, version and
\* files, and its message, None when the encoded message length is 0.
Expected(frame) ==
    Delivery(frame.files, IF HasMessage(frame) THEN frame.message ELSE None,
             [custom_status |-> frame.status_code,
              protocol_version |-> frame.protocol_version])

\* A read call that began at a frame and has ended with no recv failing.
ReadOfFrame == pc = "idle" /\ expect # None /\ fault = ""

\* C1: a read of a stream that delivers exactly the bytes() of a valid frame
\* hands the callback that frame's status, version, files and message.
C1_RoundTrip ==
    ReadOfFrame => result = "ok" /\ received = Some(Expected(expect[1]))

\* C2: a first byte with bit 7 = 0 ends read with ProtocolException after that
\* one byte: no other recv, no timeout set, callback.received not called.
C2_ValidityBit ==
    [][(pc = "status" /\ consumed' # consumed /\ Head(stream) < 128)
        => /\ pc' = "idle"
           /\ result' = "ProtocolException"
           /\ consumed' = 1
           /\ stream' = Tail(stream)
           /\ sock_timeout' = sock_timeout
           /\ received' = None]_vars

C2_Witness ==
    /\ pc = "idle"
    /\ result = "ProtocolException"
    /\ consumed = 1
    /\ timeout # 0
    /\ sock_timeout = 0

\* C3: when a recv of a read call returns no bytes, the call ends with
\* ConnectionClosed and callback.received is not called in it.
C3_AllOrNothing ==
    fault = "closed" => pc = "idle" /\ result = "ConnectionClosed" /\ received = None

\* The stream closed right after the status and version bytes of a frame.
C3_Witness ==
    fault = "closed" /\ expect # None /\ consumed = 2 /\ result = "ConnectionClosed"

\* A reader at the start of a read call.
FreshReader ==
    [pc |-> "status", rb |-> read_bytes(1), fr |-> NoLocals,
     callback |-> [custom_status |-> 0, protocol_version |-> 0],
     sock_timeout |-> 0, result |-> ""]

\* read when every read_bytes call gets its bytes in one chunk.
RECURSIVE OneChunk(_, _)
OneChunk(m, data) ==
    IF m.pc \in Reading /\ Len(data) >= m.rb.size
    THEN OneChunk(field_done(m, SubSeq(data, 1, m.rb.size)),
                  SubSeq(data, m.rb.size + 1, Len(data)))
    ELSE m

\* C4: however the bytes of a frame are split into chunks, read succeeds and
\* hands the callback what it hands it when the frame comes in one chunk.
C4_PartialDelivery ==
    ReadOfFrame =>
        LET whole == OneChunk(FreshReader, bytes(expect[1]))
        IN  /\ whole.pc = "settimeout_none"
            /\ result = "ok"
            /\ received = Some(Delivery(whole.fr.files, whole.fr.message,
                                        whole.callback))

\* C5: a successful read takes exactly the bytes() of its frame from the stream,
\* so that the frames written after it follow, and it delivers that frame.
C5_ExactConsumption ==
    (ReadOfFrame /\ result = "ok")
        => /\ consumed = Len(bytes(expect[1]))
           /\ stream = WireOf(sent)
           /\ received = Some(Expected(expect[1]))

\* C6: there is no builder with a status code outside 0..127.
C6_StatusRange == builder # None => builder[1].status_code \in 0..127

\* C7: a builder's protocol version is never outside the documented range
\* 0..256.
C7_VersionRange == builder # None => builder[1].protocol_version \in 0..256

\* C8: a read call in which a recv failed ends with ConnectionClosed.
C8_ErrorNormalized == (pc = "idle" /\ fault # "") => result = "ConnectionClosed"

\* C9 as stated: with a timeout configured, no deadline while the first byte is
\* awaited, the deadline in force for steps 2-5, and not cleared before the
\* frame is handed to the callback.
C9_DeadlineWindow ==
    timeout # 0 =>
        /\ pc = "status" => sock_timeout = 0
        /\ pc \in Reading \ {"status"} => sock_timeout = timeout
        /\ pc \in {"settimeout_none", "callback"} => sock_timeout = timeout

\* C9, amended: no deadline while the first byte of the first frame, or of a
\* frame after a successful read, is awaited; the deadline in force for steps
\* 2-5; cleared after the last read of step 5 and before the frame is handed to
\* the callback.
C9_DeadlineWindowAmended ==
    timeout # 0 =>
        /\ (pc = "status" /\ result \in {"", "ok"}) => sock_timeout = 0
        /\ pc \in Reading \ {"status"} => sock_timeout = timeout
        /\ pc = "settimeout_none" => sock_timeout = timeout
        /\ pc = "callback" => sock_timeout = 0
        /\ (pc = "idle" /\ result = "ok") => sock_timeout = 0

\* A frame with a message is about to be handed over, in the read call after a
\* successful one.
C9_Witness ==
    /\ timeout # 0
    /\ pc = "callback"
    /\ sock_timeout = 0
    /\ expect # None
    /\ fr.message # None
    /\ result = "ok"

\* C10: bytes() leaves the builder as it is, and a second call on an unchanged
\* builder returns (or raises) what the first did.
C10_BytesIdempotent ==
    [][bytes_calls' = bytes_calls + 1
        => /\ builder' = builder
           /\ bytes_calls >= 1 => (dataframe' = dataframe /\ raised' = raised)]_vars

C10_Witness ==
    /\ bytes_calls = 2
    /\ dataframe # None
    /\ builder[1].files # <<>>
    /\ HasMessage(builder[1])

\* C11: the frame bytes() returns holds, after the two header bytes, the number
\* of add_file calls made, then one entry per call in the order of the calls,
\* then the length and the bytes of the last set_message call's message and of
\* no other.
C11_Accumulation ==
    dataframe # None =>
        LET df == dataframe[1]
            n == Len(calls.add_file)
            entry(i) == add_one_file(File(calls.add_file[i][1], calls.add_file[i][2]))
            start[i \in 1..(n + 1)] ==
                IF i = 1 THEN 11 ELSE start[i - 1] + Len(entry(i - 1))
            last == IF calls.set_message = <<>> THEN <<>>
                    ELSE calls.set_message[Len(calls.set_message)]
        IN  /\ from_bytes(SubSeq(df, 3, 10)) = n
            /\ \A i \in 1..n : SubSeq(df, start[i], start[i + 1] - 1) = entry(i)
            /\ SubSeq(df, start[n + 1], Len(df)) = to_bytes(Len(last), 8) \o last

\* Two different files were added and two different messages set, the first
\* of them not empty.
C11_Witness ==
    /\ dataframe # None
    /\ Len(calls.add_file) = 2
    /\ calls.add_file[1] # calls.add_file[2]
    /\ Len(calls.set_message) = 2
    /\ calls.set_message[1] # <<>>
    /\ calls.set_message[1] # calls.set_message[2]

\* C12: the builder BytesBuilder(0), left as constructed, serializes to 18
\* bytes: 0x80, the version byte 1, eight zero bytes of file count and eight
\* zero bytes of message length; a read of them takes the 18 bytes and hands the
\* callback custom status 0, version 1, no files and no message.
C12_EmptyFrame ==
    expect = Some(BytesBuilder(0)) =>
        /\ bytes(expect[1]) = <<128, 1, 0, 0, 0, 0, 0, 0, 0, 0, 0, 0, 0, 0, 0, 0, 0, 0>>
        /\ (pc = "idle" /\ fault = "") =>
               /\ result = "ok"
               /\ consumed = 18
               /\ received = Some([files |-> <<>>, message |-> None,
                                   custom_status |-> 0, protocol_version |-> 1])

\* The empty frame has been read from a reader with the small buffer size.
C12_Witness ==
    /\ expect = Some(BytesBuilder(0))
    /\ pc = "idle"
    /\ result = "ok"
    /\ consumed = 18
    /\ received # None
    /\ max_buffer_size = MaxChunk

\* C13: the 2-byte name-length field of the first file of a frame is the number
\* of bytes of the UTF-8 encoded name that follows it.
C13_NameLengthField ==
    (dataframe # None /\ builder[1].files # <<>>) =>
        from_bytes(SubSeq(dataframe[1], 11, 12))
            = Len(Utf8Encode(builder[1].files[1].name))

\* C14: in every turn of the loop of read_bytes the chunk taken is no longer
\* than min(remaining, max_buffer_size), bytes_in stays within 0..size and
\* counts the bytes gathered, which are the bytes of the stream in order; a
\* call that ends returns exactly size bytes (seen for a file's data), and a
\* frame whose data is shorter than, as long as or one byte longer than
\* max_buffer_size is delivered as it was built.
C14_ChunkedRead ==
    [][/\ pc' \in Reading =>
             /\ rb'.bytes_in >= 0
             /\ rb'.bytes_in <= rb'.size
             /\ Len(rb'.data) = rb'.bytes_in
       /\ (pc \in Reading /\ consumed' # consumed) =>
             LET n == consumed' - consumed
                 chunk == SubSeq(stream, 1, n)
             IN  /\ n >= 1
                 /\ n <= Min(rb.size - rb.bytes_in, max_buffer_size)
                 /\ stream' = SubSeq(stream, n + 1, Len(stream))
                 /\ IF rb.bytes_in + n < rb.size
                    THEN /\ pc' = pc
                         /\ rb' = [size |-> rb.size, bytes_in |-> rb.bytes_in + n,
                                   data |-> rb.data \o chunk]
                    ELSE pc = "file_data" =>
                            /\ Len(rb.data \o chunk) = rb.size
                            /\ Len(fr'.files) = Len(fr.files) + 1
                            /\ fr'.files[Len(fr'.files)].data = rb.data \o chunk
       /\ (pc' = "idle" /\ expect' # None /\ fault' = "") =>
             /\ result' = "ok"
             /\ received' = Some(Expected(expect'[1]))]_vars

\* A file one byte longer than the small buffer size has been delivered in a
\* reader of that buffer size.
C14_Witness ==
    /\ max_buffer_size = MaxChunk
    /\ pc = "idle"
    /\ result = "ok"
    /\ received # None
    /\ Len(received[1].files) = 1
    /\ received[1].files[1].data = [i \in 1..(MaxChunk + 1) |-> i]

\* recv waits: the bytes asked for have not all arrived, the stream is empty
\* and the peer has not closed.
Waiting == pc \in Reading /\ rb.bytes_in < rb.size /\ stream = <<>> /\ ~closed

\* C15: when every recv that can return does return, a read call that has begun
\* comes to its end (callback.received called, or an exception), or to a recv
\* that waits for bytes of the frame that have not arrived on a stream still
\* open; nothing else holds it up.
C15_DecodeTerminates == (pc # "idle") ~> (pc = "idle" \/ Waiting)

\* A read that got the first ten bytes of a frame has ended after the close.
C15_Witness ==
    /\ pc = "idle"
    /\ expect # None
    /\ consumed >= 10
    /\ fault = "closed"
    /\ result = "ConnectionClosed"

\* C16: a frame whose message was set to b'' has the bytes of the same frame
\* with no message set, ending in a zero message length with nothing after it,
\* and a read that delivers either of them hands the callback None as message.
C16_EmptyMessage ==
    (expect # None /\ ~HasMessage(expect[1])) =>
        LET df == bytes(expect[1])
        IN  /\ df = bytes([expect[1] EXCEPT !.message = None])
            /\ SubSeq(df, Len(df) - 7, Len(df)) = <<0, 0, 0, 0, 0, 0, 0, 0>>
            /\ (pc = "idle" /\ result = "ok" /\ fault = "") =>
                   received[1].message = None

\* A frame with a file and the message b'' has been delivered.
C16_Witness ==
    /\ expect # None
    /\ expect[1].message = Some(<<>>)
    /\ expect[1].files # <<>>
    /\ pc = "idle"
    /\ result = "ok"
    /\ received # None
    /\ received[1].message = None

\* C17: a read call that ended with ProtocolException or ConnectionClosed has
\* left the callback's custom_status and protocol_version as they were when it
\* began.
C17_NoStateLeak ==
    (pc = "idle" /\ result \in {"ProtocolException", "ConnectionClosed"})
        => callback = before

\* C18: a send that returns has put every byte of its frame on the stream.
C18_CompleteSend ==
    [][(Len(sent') = Len(sent) + 1)
        => stream' = stream \o bytes(sent'[Len(sent')])]_vars

\* C19: no recv is issued by a read_bytes call of size 0: a zero name length
\* goes on to the data-length field with the name "", a zero data length adds
\* the file with data b'' and goes on to the next field, neither taking a byte
\* for the empty field; a frame with such a file is delivered whole when no
\* recv fails; and a recv that returns b'' ends the call at once with
\* ConnectionClosed.
C19_ZeroLength ==
    [][/\ pc' \in Reading => rb'.size > 0
       /\ (pc = "name_len" /\ consumed' # consumed /\ rb.bytes_in + consumed' - consumed = 2
              /\ from_bytes(rb.data \o SubSeq(stream, 1, consumed' - consumed)) = 0) =>
             /\ pc' = "file_len"
             /\ fr'.filename = <<>>
             /\ rb' = read_bytes(8)
       /\ (pc = "file_len" /\ consumed' # consumed /\ rb.bytes_in + consumed' - consumed = 8
              /\ from_bytes(rb.data \o SubSeq(stream, 1, consumed' - consumed)) = 0) =>
             /\ pc' \in {"name_len", "msg_len"}
             /\ rb'.bytes_in = 0
             /\ fr'.files = Append(fr.files, File(fr.filename, <<>>))
       /\ (pc' = "idle" /\ expect' # None /\ fault' = "") =>
             /\ result' = "ok"
             /\ consumed' = Len(bytes(expect'[1]))
             /\ received' = Some(Expected(expect'[1]))
       /\ (fault' = "closed" /\ fault # "closed") =>
             /\ pc' = "idle"
             /\ result' = "ConnectionClosed"
             /\ consumed' = consumed]_vars

\* A file with the name "" and the data b'' has been delivered.
C19_Witness ==
    /\ pc = "idle"
    /\ result = "ok"
    /\ received # None
    /\ received[1].files = <<File(<<>>, <<>>)>>
    /\ consumed = 28

====
